---------------------------- MODULE Spec2Model ----------------------------
(***************************************************************************)
(* A model of the retrieval-augmented-generation core of the homework      *)
(* scripts hw6_asingh101.py and asingh101_hw7.py: the chunker              *)
(* (semantic_chunk), the batched embedding loop (compute_embeddings), the  *)
(* knowledge store (save_knowledge_base, load_knowledge_base,              *)
(* initialize_knowledge_base), the retriever (dot_product,                 *)
(* retrieve_relevant_chunks) and the query path (create_augmented_prompt,  *)
(* send_rag_query).                                                        *)
(*                                                                         *)
(* Python strings are sequences of one-character strings, Python lists are *)
(* sequences, and a list index kept in the data (enumerate, range) is the  *)
(* 0-based Python index.  Floating-point scores are integers (the          *)
(* scenario vector [0.7, 0.7] is <<7, 7>> on a scale of 10).               *)
(***************************************************************************)
EXTENDS Integers, Sequences, FiniteSets, TLC

VARIABLES
    \* ---- one call of semantic_chunk(text, chunk_size, overlap) ----
    text,               \* the argument text
    chunk_size,         \* the argument chunk_size
    overlap,            \* the argument overlap
    chunk_result,       \* what the call did: [status, chunks, offsets]
    \* ---- one call of retrieve_relevant_chunks(query_embedding, chunk_embeddings, chunks, k) ----
    query_embedding,
    chunk_embeddings,
    chunks_arg,
    k,
    retrieve_result,    \* what the call did: [status, retrieved_chunks, topk_indices]
    calls,              \* history: how many calls have returned or raised
    store_before,       \* history: the chunks and embeddings lists before the first call
    \* ---- a run of the hw7 script (main -> initialize_knowledge_base) ----
    script,             \* which script the process runs: "hw6" or "hw7"
    file,               \* knowledge_base.json on disk
    documents,          \* what the two DOCUMENT_URLS serve
    pc,                 \* where the process is
    total_text,         \* local of initialize_knowledge_base
    chunks,             \* local of initialize_knowledge_base / return value
    embeddings,         \* local of compute_embeddings / return value
    batch_i,            \* loop variable i of compute_embeddings
    file_at_start,      \* history: the file when the process started
    built,              \* history: TRUE when this process built the store itself
    error,              \* the exception that ended the process, "" when none did
    failed_calls,       \* history: embedding calls of this process that raised
    saved_by,           \* history: the script whose save completed the file, "" when
                        \* the file is from before or is being written
    \* ---- one call of send_rag_query(query, chunks, embeddings) ----
    query,              \* the argument query
    qpc,                \* where the call is
    developer_prompt,   \* local of send_rag_query
    request,            \* the input of client.responses.create
    \* ---- two processes building and saving the same knowledge_base.json ----
    disk,               \* the file: [exists, text]
    rpc,                \* where each process is
    out,                \* the JSON text each process has to write
    pos                 \* the file position of each process's open file

chunkVars == <<text, chunk_size, overlap, chunk_result>>
callVars == <<calls, store_before>>
retrieveVars == <<query_embedding, chunk_embeddings, chunks_arg, k, retrieve_result, callVars>>
histVars == <<error, failed_calls, saved_by>>
runVars == <<script, file, documents, pc, total_text, chunks, embeddings, batch_i,
             file_at_start, built, histVars>>
queryVars == <<query, qpc, developer_prompt, request>>
raceVars == <<disk, rpc, out, pos>>
vars == <<chunkVars, retrieveVars, runVars, queryVars, raceVars>>

---------------------------------------------------------------------------
(* Bounds of the model *)

MaxTextLen == 5       \* texts handed to semantic_chunk have 0..MaxTextLen characters
MaxChunkSize == 3     \* chunk_size ranges over -1..MaxChunkSize, overlap over -1..MaxChunkSize+1
MaxDocLen == 3        \* a downloaded document has 0..MaxDocLen characters
MaxStore == 3         \* a store handed to the retriever has 0..MaxStore embeddings
MaxK == 4             \* k ranges over 1..MaxK
MaxCalls == 3         \* the retriever is called up to MaxCalls times on one store

(* Program constants.  CHUNK_SIZE, OVERLAP and batch_size are 800, 200 and  *)
(* 100 in the source; they are scaled down (keeping OVERLAP < CHUNK_SIZE    *)
(* and the 4:1 ratio) so that a corpus of a few characters is cut into      *)
(* several chunks and several embedding batches.                            *)
CHUNK_SIZE == 4
OVERLAP == 1
batch_size == 2
TOP_K == 5
EMBEDDING_MODEL == "text-embedding-3-small"
KNOWLEDGE_BASE_FILE == "knowledge_base.json"

\* The same constants of hw6_asingh101.py, scaled the same way.
Hw6_CHUNK_SIZE == 4
Hw6_OVERLAP == 1
Hw6_EMBEDDING_MODEL == "text-embedding-3-small"
OUTPUT_FILE == "knowledge_base.json"

---------------------------------------------------------------------------
(* Python built-ins, as the code uses them *)

Min(a, b) == IF a <= b THEN a ELSE b
Max(a, b) == IF a >= b THEN a ELSE b

\* s[a:b] for a Python sequence s: negative indices count from the end, both
\* ends are clamped to 0..len(s), an empty range gives the empty sequence.
PySlice(s, a, b) ==
    LET n  == Len(s)
        lo == Min(Max(IF a < 0 THEN a + n ELSE a, 0), n)
        hi == Min(Max(IF b < 0 THEN b + n ELSE b, 0), n)
    IN  IF hi <= lo THEN <<>> ELSE SubSeq(s, lo + 1, hi)

\* A mutant of PyRange: an ascending range ends one step early.
PyRangeOneShort(start, stop, step) ==
    IF step > 0
    THEN IF stop <= start THEN <<>>
         ELSE [j \in 1..((stop - start - 1) \div step) |-> start + (j - 1) * step]
    ELSE IF stop >= start THEN <<>>
         ELSE [j \in 1..((start - stop - step - 1) \div (-step)) |-> start + (j - 1) * step]

\* list(range(start, stop, step)) for step # 0 (range raises ValueError on step = 0)
PyRange(start, stop, step) ==
    IF step > 0
    THEN IF stop <= start THEN <<>>
         ELSE [j \in 1..((stop - start + step - 1) \div step) |-> start + (j - 1) * step]
    ELSE IF stop >= start THEN <<>>
         ELSE [j \in 1..((start - stop - step - 1) \div (-step)) |-> start + (j - 1) * step]

IsSpace(c) == c \in {" ", "\n"}

\* str.strip(): the string without its leading and trailing whitespace
Strip(s) ==
    LET solid == {j \in 1..Len(s) : ~IsSpace(s[j])}
    IN  IF solid = {} THEN <<>>
        ELSE SubSeq(s, CHOOSE j \in solid : \A j2 \in solid : j <= j2,
                       CHOOSE j \in solid : \A j2 \in solid : j >= j2)

---------------------------------------------------------------------------
(* semantic_chunk *)

\* A mutant of Stride: the overlap is forgotten.
StrideNoOverlap(size, ovl) == size

\* A mutant of Stride: the windows advance one character less.
StrideOneLess(size, ovl) == size - ovl - 1

\* stride = chunk_size - overlap
Stride(size, ovl) == size - ovl

\* A mutant of KeepsChunk: strip() is forgotten.
KeepsNonEmpty(chunk) == Len(chunk) > 0

\* the test `len(chunk.strip()) > 0`
KeepsChunk(chunk) == Len(Strip(chunk)) > 0

\* semantic_chunk(t, size, ovl).  status is "ok" when the call returns and
\* "ValueError" when range() raises on a zero step; chunks is the returned list;
\* offsets[j] is the value of the loop variable i when chunks[j] was appended;
\* visited lists every value the loop variable i took.
SemanticChunk(t, size, ovl) ==
    LET stride == Stride(size, ovl)
    IN  IF stride = 0
        THEN [status |-> "ValueError", chunks |-> <<>>, offsets |-> <<>>, visited |-> <<>>]
        ELSE LET visited == PyRange(0, Len(t), stride)
                 kept    == SelectSeq(visited,
                                      LAMBDA i : KeepsChunk(PySlice(t, i, i + size)))
             IN  [status  |-> "ok",
                  chunks  |-> [j \in 1..Len(kept) |-> PySlice(t, kept[j], kept[j] + size)],
                  offsets |-> kept,
                  visited |-> visited]

---------------------------------------------------------------------------
(* dot_product and retrieve_relevant_chunks *)

RECURSIVE SumProducts(_, _, _)
SumProducts(v1, v2, n) ==
    IF n = 0 THEN 0 ELSE SumProducts(v1, v2, n - 1) + v1[n] * v2[n]

\* A mutant of DotProduct: only the first components are multiplied.
DotProductFirstComponent(v1, v2) == SumProducts(v1, v2, Min(1, Min(Len(v1), Len(v2))))

\* sum(a * b for a, b in zip(v1, v2)): zip stops at the shorter vector
DotProduct(v1, v2) == SumProducts(v1, v2, Min(Len(v1), Len(v2)))

\* list(enumerate(similarities)): pairs <<index, similarity>>, index from 0
Enumerate(s) == [j \in 1..Len(s) |-> <<j - 1, s[j]>>]

\* One pair put into a list already sorted by descending similarity, behind
\* the pairs of the same similarity (a stable sort keeps equal keys in their
\* original order, also under reverse=True).
InsertStable(sorted, p) ==
    LET ahead == Cardinality({j \in 1..Len(sorted) : sorted[j][2] >= p[2]})
    IN  SubSeq(sorted, 1, ahead) \o <<p>> \o SubSeq(sorted, ahead + 1, Len(sorted))

RECURSIVE SortPrefixStable(_, _)
SortPrefixStable(s, n) ==
    IF n = 0 THEN <<>> ELSE InsertStable(SortPrefixStable(s, n - 1), s[n])

\* The same with equal similarities put in front of each other, as sorting
\* ascending and reversing the result would do.
InsertReversing(sorted, p) ==
    LET ahead == Cardinality({j \in 1..Len(sorted) : sorted[j][2] > p[2]})
    IN  SubSeq(sorted, 1, ahead) \o <<p>> \o SubSeq(sorted, ahead + 1, Len(sorted))

RECURSIVE SortPrefixReversing(_, _)
SortPrefixReversing(s, n) ==
    IF n = 0 THEN <<>> ELSE InsertReversing(SortPrefixReversing(s, n - 1), s[n])

\* A mutant of SortBySimilarity: ties come out in descending index order.
SortBySimilarityTiesReversed(s) == SortPrefixReversing(s, Len(s))

\* indexed_similarities.sort(key=lambda x: x[1], reverse=True)
SortBySimilarity(s) == SortPrefixStable(s, Len(s))

\* A mutant of TopK: one element too few.
TopKOneShort(s, kk) == PySlice(s, 0, kk - 1)

\* indexed_similarities[:k]
TopK(s, kk) == PySlice(s, 0, kk)

\* A mutant of RetrieveRelevantChunks: the best score is taken before the
\* ranking, which raises on an empty store.
RetrieveBestFirst(q, embs, chs, kk) ==
    LET similarities == [j \in 1..Len(embs) |-> DotProduct(q, embs[j])]
        top          == TopK(SortBySimilarity(Enumerate(similarities)), kk)
        topk_indices == [j \in 1..Len(top) |-> top[j][1]]
    IN  IF Len(embs) = 0 \/ \E j \in 1..Len(topk_indices) : topk_indices[j] >= Len(chs)
        THEN [status |-> "IndexError", retrieved_chunks |-> <<>>, topk_indices |-> <<>>]
        ELSE [status |-> "ok",
              retrieved_chunks |->
                  [j \in 1..Len(topk_indices) |->
                      <<chs[topk_indices[j] + 1], similarities[topk_indices[j] + 1]>>],
              topk_indices |-> topk_indices]

\* retrieve_relevant_chunks(q, embs, chs, kk).  status is "ok" when the call
\* returns and "IndexError" when chunks[i] is read past the end of chunks.
RetrieveRelevantChunks(q, embs, chs, kk) ==
    LET similarities == [j \in 1..Len(embs) |-> DotProduct(q, embs[j])]
        top          == TopK(SortBySimilarity(Enumerate(similarities)), kk)
        topk_indices == [j \in 1..Len(top) |-> top[j][1]]
    IN  IF \E j \in 1..Len(topk_indices) : topk_indices[j] >= Len(chs)
        THEN [status |-> "IndexError", retrieved_chunks |-> <<>>, topk_indices |-> <<>>]
        ELSE [status |-> "ok",
              retrieved_chunks |->
                  [j \in 1..Len(topk_indices) |->
                      <<chs[topk_indices[j] + 1], similarities[topk_indices[j] + 1]>>],
              topk_indices |-> topk_indices]

\* A mutant of ArgumentsAfterRetrieve: the descending sort is done in place
\* on the caller's embeddings list.
ArgumentsAfterSortingStore(q, embs, chs, kk) ==
    LET similarities == [j \in 1..Len(embs) |-> DotProduct(q, embs[j])]
        sorted       == SortBySimilarity(Enumerate(similarities))
    IN  [chunk_embeddings |-> [j \in 1..Len(embs) |-> embs[sorted[j][1] + 1]],
         chunks           |-> chs]

\* The caller's lists chunk_embeddings and chunks after a call, returned or
\* raised.  The body only iterates chunk_embeddings and indexes chunks; its
\* one in-place operation, sort, acts on indexed_similarities, a new list made
\* by list(enumerate(similarities)); similarities is a new list too.
ArgumentsAfterRetrieve(q, embs, chs, kk) ==
    [chunk_embeddings |-> embs, chunks |-> chs]

---------------------------------------------------------------------------
(* The inputs the calls are tried on *)

SeqsUpTo(S, n) == UNION {[1..m -> S] : m \in 0..n}

Texts == SeqsUpTo({"a", " "}, MaxTextLen)

\* The text of the spec's chunking scenario: 1500 characters.
ScenarioText == [j \in 1..1500 |-> "a"]

StoreVectors == [1..2 -> {0, 1}]
QueryVectors == StoreVectors \cup [1..1 -> {0, 1}] \cup {<<1, 1, 1>>}

\* n distinct chunk texts
SomeChunks(n) == [j \in 1..n |-> [x \in 1..j |-> "a"]]

Pending == "pending"
NoChunkResult == [status |-> Pending, chunks |-> <<>>, offsets |-> <<>>, visited |-> <<>>]
NoRetrieveResult == [status |-> Pending, retrieved_chunks |-> <<>>, topk_indices |-> <<>>]
NoStore == [chunks |-> <<>>, embeddings |-> <<>>]
NoMetadata == [chunk_size |-> 0, overlap |-> 0, embedding_model |-> "", num_chunks |-> 0]
NoData == [chunks |-> <<>>, embeddings |-> <<>>, metadata |-> NoMetadata]
\* No knowledge_base.json on disk
NoFile == [written |-> -1, data |-> NoData]

IdleChunk ==
    /\ text = <<>> /\ chunk_size = CHUNK_SIZE /\ overlap = OVERLAP
    /\ chunk_result = NoChunkResult

IdleRetrieve ==
    /\ query_embedding = <<>> /\ chunk_embeddings = <<>> /\ chunks_arg = <<>>
    /\ k = TOP_K /\ retrieve_result = NoRetrieveResult
    /\ calls = 0 /\ store_before = NoStore

IdleRun ==
    /\ script = "hw7" /\ file = NoFile /\ documents = <<>> /\ pc = "idle"
    /\ total_text = <<>> /\ chunks = <<>> /\ embeddings = <<>> /\ batch_i = 0
    /\ file_at_start = NoFile /\ built = FALSE
    /\ error = "" /\ failed_calls = 0 /\ saved_by = ""

IdleQuery ==
    /\ query = <<>> /\ qpc = "idle" /\ developer_prompt = <<>> /\ request = <<>>

\* No knowledge_base.json on disk, as a text
NoDisk == [exists |-> FALSE, text |-> <<>>]

IdleRace ==
    /\ disk = NoDisk /\ rpc = <<>> /\ out = <<>> /\ pos = <<>>

---------------------------------------------------------------------------
(* Specification SpecChunk: semantic_chunk called on every small input *)

InitChunk ==
    /\ \/ /\ text \in Texts
          /\ chunk_size \in -1..MaxChunkSize
          /\ overlap \in -1..(MaxChunkSize + 1)
       \/ /\ text = ScenarioText
          /\ chunk_size = 800
          /\ overlap = 200
    /\ chunk_result = NoChunkResult
    /\ IdleRetrieve
    /\ IdleRun
    /\ IdleQuery
    /\ IdleRace

CallSemanticChunk ==
    /\ chunk_result.status = Pending
    /\ chunk_result' = SemanticChunk(text, chunk_size, overlap)
    /\ UNCHANGED <<text, chunk_size, overlap, retrieveVars, runVars, queryVars, raceVars>>

NextChunk == CallSemanticChunk

SpecChunk == InitChunk /\ [][NextChunk]_vars

---------------------------------------------------------------------------
(* Specification SpecRetrieve: retrieve_relevant_chunks called on every small store *)

InitRetrieve ==
    /\ \/ /\ chunk_embeddings \in SeqsUpTo(StoreVectors, MaxStore)
          /\ query_embedding \in QueryVectors
          /\ \E n \in {Len(chunk_embeddings) - 1, Len(chunk_embeddings),
                       Len(chunk_embeddings) + 1} :
                /\ n >= 0
                /\ chunks_arg = SomeChunks(n)
          /\ k \in 1..MaxK
       \/ /\ chunk_embeddings = << <<10, 0>>, <<0, 10>>, <<7, 7>> >>
          /\ query_embedding = <<10, 0>>
          /\ chunks_arg = SomeChunks(3)
          /\ k = 2
    /\ retrieve_result = NoRetrieveResult
    /\ calls = 0
    /\ store_before = [chunks |-> chunks_arg, embeddings |-> chunk_embeddings]
    /\ IdleChunk
    /\ IdleRun
    /\ IdleQuery
    /\ IdleRace

\* One call: the result, and the caller's two lists as the call leaves them.
CallRetrieveRelevantChunks ==
    /\ retrieve_result.status = Pending
    /\ retrieve_result' =
           RetrieveRelevantChunks(query_embedding, chunk_embeddings, chunks_arg, k)
    /\ chunk_embeddings' =
           ArgumentsAfterRetrieve(query_embedding, chunk_embeddings, chunks_arg, k)
               .chunk_embeddings
    /\ chunks_arg' =
           ArgumentsAfterRetrieve(query_embedding, chunk_embeddings, chunks_arg, k).chunks
    /\ calls' = calls + 1
    /\ UNCHANGED <<query_embedding, k, store_before, chunkVars, runVars,
                   queryVars, raceVars>>

NextRetrieve == CallRetrieveRelevantChunks

SpecRetrieve == InitRetrieve /\ [][NextRetrieve]_vars

---------------------------------------------------------------------------
(* Specification SpecCalls: a sequence of retrieve_relevant_chunks calls on one store *)

InitCalls ==
    /\ chunk_embeddings \in SeqsUpTo(StoreVectors, MaxStore)
    /\ query_embedding \in QueryVectors
    /\ \E n \in {Len(chunk_embeddings) - 1, Len(chunk_embeddings),
                 Len(chunk_embeddings) + 1} :
          /\ n >= 0
          /\ chunks_arg = SomeChunks(n)
    /\ k \in 1..MaxK
    /\ retrieve_result = NoRetrieveResult
    /\ calls = 0
    /\ store_before = [chunks |-> chunks_arg, embeddings |-> chunk_embeddings]
    /\ IdleChunk
    /\ IdleRun
    /\ IdleQuery
    /\ IdleRace

\* The caller asks again on the same store, with another query or another k.
RetrieveAgain ==
    /\ retrieve_result.status # Pending
    /\ calls < MaxCalls
    /\ query_embedding' \in QueryVectors
    /\ k' \in 1..MaxK
    /\ retrieve_result' = NoRetrieveResult
    /\ UNCHANGED <<chunk_embeddings, chunks_arg, callVars, chunkVars, runVars,
                   queryVars, raceVars>>

NextCalls ==
    \/ CallRetrieveRelevantChunks
    \/ RetrieveAgain

SpecCalls == InitCalls /\ [][NextCalls]_vars

---------------------------------------------------------------------------
(* The build path and the knowledge store *)

RECURSIVE JoinFrom(_, _, _)
JoinFrom(sep, docs, n) ==
    IF n = 0 THEN <<>>
    ELSE IF n = 1 THEN docs[1]
    ELSE JoinFrom(sep, docs, n - 1) \o sep \o docs[n]

\* total_text = "\n\n".join(documents)
JoinDocuments(docs) == JoinFrom(<<"\n", "\n">>, docs, Len(docs))

\* The embedding the service gives a text: a fixed function of the text (the
\* service is deterministic and answers one vector per input, in input order).
\* Here: how many non-blank and how many blank characters the text has.
ClientEmbedding(t) ==
    <<Cardinality({j \in 1..Len(t) : ~IsSpace(t[j])}),
      Cardinality({j \in 1..Len(t) : IsSpace(t[j])})>>

\* [item.embedding for item in client.embeddings.create(input=batch).data]
BatchEmbeddings(batch) == [j \in 1..Len(batch) |-> ClientEmbedding(batch[j])]

\* A mutant of Batch: the slice ends one element early.
BatchOneShort(chs, i) == PySlice(chs, i, i + batch_size - 1)

\* batch = chunks[i:i + batch_size]
Batch(chs, i) == PySlice(chs, i, i + batch_size)

\* A mutant of ExtendEmbeddings: the new batch is put in front.
PrependEmbeddings(embs, batch_embeddings) == batch_embeddings \o embs

\* embeddings.extend(batch_embeddings)
ExtendEmbeddings(embs, batch_embeddings) == embs \o batch_embeddings

\* The object save_knowledge_base dumps; the metadata comes from the module
\* constants, not from the arguments.
KnowledgeBaseData(chs, embs) ==
    [chunks     |-> chs,
     embeddings |-> embs,
     metadata   |-> [chunk_size      |-> CHUNK_SIZE,
                     overlap         |-> OVERLAP,
                     embedding_model |-> EMBEDDING_MODEL,
                     num_chunks      |-> Len(chs)]]

\* A mutant of Hw6SemanticChunk: the stripped chunk is the one appended.
Hw6SemanticChunkStripped(t, size, ovl) ==
    LET stride == size - ovl
        kept   == SelectSeq(PyRange(0, Len(t), stride),
                            LAMBDA i : Len(Strip(PySlice(t, i, i + size))) > 0)
    IN  [j \in 1..Len(kept) |-> Strip(PySlice(t, kept[j], kept[j] + size))]

\* semantic_chunk of hw6_asingh101.py, for a stride that is not 0: the list
\* of the slices text[i:i + chunk_size], i in range(0, len(text), stride),
\* that strip() does not empty.
Hw6SemanticChunk(t, size, ovl) ==
    LET stride == size - ovl
        kept   == SelectSeq(PyRange(0, Len(t), stride),
                            LAMBDA i : Len(Strip(PySlice(t, i, i + size))) > 0)
    IN  [j \in 1..Len(kept) |-> PySlice(t, kept[j], kept[j] + size)]

\* The object save_knowledge_base of hw6_asingh101.py dumps.
Hw6KnowledgeBaseData(chs, embs) ==
    [chunks     |-> chs,
     embeddings |-> embs,
     metadata   |-> [chunk_size      |-> Hw6_CHUNK_SIZE,
                     overlap         |-> Hw6_OVERLAP,
                     embedding_model |-> Hw6_EMBEDDING_MODEL,
                     num_chunks      |-> Len(chs)]]

(* json.dump and json.load, on texts that are sequences of symbols: one     *)
(* symbol per character, except that a key or an identifier the program     *)
(* never looks into ("chunks", the model name) is kept as a single symbol.  *)

Digits == <<"0", "1", "2", "3", "4", "5", "6", "7", "8", "9">>

RECURSIVE DecimalDigits(_)
DecimalDigits(n) ==
    IF n < 10 THEN <<Digits[n + 1]>>
    ELSE DecimalDigits(n \div 10) \o <<Digits[(n % 10) + 1]>>

\* an integer as JSON text
JsonInt(n) == IF n < 0 THEN <<"-">> \o DecimalDigits(-n) ELSE DecimalDigits(n)

\* a character inside a JSON string: quote, backslash and newline are escaped
EscapeChar(c) ==
    CASE c = "\n" -> <<"\\", "n">>
      [] c = "\"" -> <<"\\", "\"">>
      [] c = "\\" -> <<"\\", "\\">>
      [] OTHER    -> <<c>>

RECURSIVE EscapeFirst(_, _)
EscapeFirst(s, n) == IF n = 0 THEN <<>> ELSE EscapeFirst(s, n - 1) \o EscapeChar(s[n])

\* a string as JSON text
JsonString(s) == <<"\"">> \o EscapeFirst(s, Len(s)) \o <<"\"">>

\* a list of already encoded items as JSON text, items separated by ", "
JsonList(items) == <<"[">> \o JoinFrom(<<",", " ">>, items, Len(items)) \o <<"]">>

\* "key": value
JsonMember(key, value) == JsonString(<<key>>) \o <<":", " ">> \o value

JsonVector(v) == JsonList([j \in 1..Len(v) |-> JsonInt(v[j])])

\* json.dump(data, f): the text written for the object of save_knowledge_base
JsonDump(data) ==
    <<"{">>
    \o JsonMember("chunks",
           JsonList([j \in 1..Len(data.chunks) |-> JsonString(data.chunks[j])]))
    \o <<",", " ">>
    \o JsonMember("embeddings",
           JsonList([j \in 1..Len(data.embeddings) |-> JsonVector(data.embeddings[j])]))
    \o <<",", " ">>
    \o JsonMember("metadata",
           <<"{">>
           \o JsonMember("chunk_size", JsonInt(data.metadata.chunk_size))
           \o <<",", " ">>
           \o JsonMember("overlap", JsonInt(data.metadata.overlap))
           \o <<",", " ">>
           \o JsonMember("embedding_model", JsonString(<<data.metadata.embedding_model>>))
           \o <<",", " ">>
           \o JsonMember("num_chunks", JsonInt(data.metadata.num_chunks))
           \o <<"}">>)
    \o <<"}">>

\* A mutant of UnescapeChar: the escape letter is taken as the character.
UnescapeNothing(c) == c

\* the character an escape \c stands for
UnescapeChar(c) == IF c = "n" THEN "\n" ELSE c

\* The parser.  Each step returns [val, next]: the value read and the
\* position behind it.  The text is a complete JSON text.
RECURSIVE ScanString(_, _, _)
ScanString(t, p, acc) ==
    IF t[p] = "\"" THEN [val |-> acc, next |-> p + 1]
    ELSE IF t[p] = "\\" THEN ScanString(t, p + 2, Append(acc, UnescapeChar(t[p + 1])))
    ELSE ScanString(t, p + 1, Append(acc, t[p]))

DigitValue(c) == (CHOOSE d \in 1..10 : Digits[d] = c) - 1

RECURSIVE ScanDigits(_, _, _)
ScanDigits(t, p, acc) ==
    IF p <= Len(t) /\ t[p] \in {Digits[d] : d \in 1..10}
    THEN ScanDigits(t, p + 1, acc * 10 + DigitValue(t[p]))
    ELSE [val |-> acc, next |-> p]

ParseInt(t, p) ==
    IF t[p] = "-"
    THEN LET r == ScanDigits(t, p + 1, 0) IN [val |-> 0 - r.val, next |-> r.next]
    ELSE ScanDigits(t, p, 0)

RECURSIVE ParseValue(_, _)
RECURSIVE ParseItems(_, _, _)
RECURSIVE ParseMembers(_, _, _)

\* a string, a list, an object (a sequence of <<key, value>> pairs) or an integer
ParseValue(t, p) ==
    CASE t[p] = "\"" -> ScanString(t, p + 1, <<>>)
      [] t[p] = "["  -> ParseItems(t, p + 1, <<>>)
      [] t[p] = "{"  -> ParseMembers(t, p + 1, <<>>)
      [] OTHER       -> ParseInt(t, p)

ParseItems(t, p, acc) ==
    IF t[p] = "]" THEN [val |-> acc, next |-> p + 1]
    ELSE LET v == ParseValue(t, p)
         IN  IF t[v.next] = ","
             THEN ParseItems(t, v.next + 2, Append(acc, v.val))
             ELSE [val |-> Append(acc, v.val), next |-> v.next + 1]

ParseMembers(t, p, acc) ==
    IF t[p] = "}" THEN [val |-> acc, next |-> p + 1]
    ELSE LET key == ScanString(t, p + 1, <<>>)
             v   == ParseValue(t, key.next + 2)
         IN  IF t[v.next] = ","
             THEN ParseMembers(t, v.next + 2, Append(acc, <<key.val, v.val>>))
             ELSE [val |-> Append(acc, <<key.val, v.val>>), next |-> v.next + 1]

\* json.load(f) on a complete text
JsonLoad(t) == ParseValue(t, 1).val

\* data[key] on a loaded object
Lookup(obj, key) == obj[CHOOSE j \in 1..Len(obj) : obj[j][1] = <<key>>][2]

\* knowledge_base.json.  data is the object being dumped and written says how
\* much of its JSON text is on disk: -1 no file, 0 an empty file (just opened
\* with 'w'), 1 the text up to the end of "chunks", 2 up to the end of
\* "embeddings", 3 the whole text.
FileExists(f) == f.written >= 0
FileComplete(f) == f.written = 3

\* the text of a complete knowledge_base.json
FileText(f) == JsonDump(f.data)

\* load_knowledge_base(): data = json.load(f); return data["chunks"], data["embeddings"]
LoadKnowledgeBase(f) ==
    LET data == JsonLoad(FileText(f))
    IN  [chunks |-> Lookup(data, "chunks"), embeddings |-> Lookup(data, "embeddings")]

\* A complete artifact left on disk by an earlier run that chunked the same
\* documents with the given parameters.
ArtifactOf(chs, size, ovl) ==
    [written |-> 3,
     data    |-> [chunks     |-> chs,
                  embeddings |-> BatchEmbeddings(chs),
                  metadata   |-> [chunk_size      |-> size,
                                  overlap         |-> ovl,
                                  embedding_model |-> EMBEDDING_MODEL,
                                  num_chunks      |-> Len(chs)]]]

EarlierArtifact(docs, size, ovl) ==
    ArtifactOf(SemanticChunk(JoinDocuments(docs), size, ovl).chunks, size, ovl)

\* The same artifact damaged outside the program: its last embedding removed.
WithoutLastEmbedding(f) ==
    [f EXCEPT !.data.embeddings = PySlice(@, 0, Len(@) - 1)]

\* The same artifact damaged outside the program: its first vector cut to one number.
WithShortFirstVector(f) ==
    IF Len(f.data.embeddings) = 0 THEN f
    ELSE [f EXCEPT !.data.embeddings[1] = PySlice(@, 0, 1)]

\* What may be on disk when the first process starts.
InitialFiles(docs) ==
    {NoFile,
     EarlierArtifact(docs, CHUNK_SIZE, OVERLAP),
     EarlierArtifact(docs, CHUNK_SIZE - 1, OVERLAP),
     WithoutLastEmbedding(EarlierArtifact(docs, CHUNK_SIZE, OVERLAP)),
     WithShortFirstVector(EarlierArtifact(docs, CHUNK_SIZE, OVERLAP))}

Documents == {[x \in 1..n |-> "a"] : n \in 0..MaxDocLen}

InitRun ==
    /\ script \in {"hw6", "hw7"}
    /\ documents \in [1..2 -> Documents]
    /\ file \in InitialFiles(documents)
    /\ file_at_start = file
    /\ pc = "start"
    /\ total_text = <<>> /\ chunks = <<>> /\ embeddings = <<>> /\ batch_i = 0
    /\ built = FALSE
    /\ error = "" /\ failed_calls = 0 /\ saved_by = ""
    /\ IdleChunk
    /\ IdleRetrieve
    /\ IdleQuery
    /\ IdleRace

\* hw7, initialize_knowledge_base: the file exists, load_knowledge_base reads
\* it.  json.load raises on an incomplete text; otherwise data["chunks"] and
\* data["embeddings"] of the parsed text are returned as they are.
LoadExisting ==
    /\ pc = "start" /\ script = "hw7"
    /\ FileExists(file)
    /\ IF FileComplete(file)
       THEN /\ chunks' = LoadKnowledgeBase(file).chunks
            /\ embeddings' = LoadKnowledgeBase(file).embeddings
            /\ pc' = "ready"
       ELSE /\ pc' = "failed"
            /\ UNCHANGED <<chunks, embeddings>>
    /\ UNCHANGED <<script, file, documents, total_text, batch_i, file_at_start, built,
                   chunkVars, retrieveVars, queryVars, raceVars>>
    /\ error' = (IF FileComplete(file) THEN error ELSE "JSONDecodeError")
    /\ UNCHANGED <<failed_calls, saved_by>>

\* A mutant of Download: hw7 rebuilds whether or not the file exists.
DownloadAlways ==
    /\ pc = "start"
    /\ total_text' = JoinDocuments(documents)
    /\ pc' = "chunk"
    /\ UNCHANGED <<script, file, documents, chunks, embeddings, batch_i, file_at_start,
                   built, chunkVars, retrieveVars, queryVars, raceVars>>
    /\ UNCHANGED histVars

\* download_documents and the join: hw6 always, hw7 when the file is absent.
Download ==
    /\ pc = "start"
    /\ script = "hw7" => ~FileExists(file)
    /\ total_text' = JoinDocuments(documents)
    /\ pc' = "chunk"
    /\ UNCHANGED <<script, file, documents, chunks, embeddings, batch_i, file_at_start,
                   built, chunkVars, retrieveVars, queryVars, raceVars>>
    /\ UNCHANGED histVars

\* urlopen raises: the exception ends the process.
DownloadFails ==
    /\ pc = "start"
    /\ script = "hw7" => ~FileExists(file)
    /\ pc' = "failed"
    /\ UNCHANGED <<script, file, documents, total_text, chunks, embeddings, batch_i,
                   file_at_start, built, chunkVars, retrieveVars, queryVars, raceVars>>
    /\ error' = "URLError" /\ UNCHANGED <<failed_calls, saved_by>>

\* chunks = semantic_chunk(total_text), then compute_embeddings starts
Chunk ==
    /\ pc = "chunk"
    /\ chunks' = IF script = "hw6"
                 THEN Hw6SemanticChunk(total_text, Hw6_CHUNK_SIZE, Hw6_OVERLAP)
                 ELSE SemanticChunk(total_text, CHUNK_SIZE, OVERLAP).chunks
    /\ embeddings' = <<>>
    /\ batch_i' = 0
    /\ pc' = "embed"
    /\ UNCHANGED <<script, file, documents, total_text, file_at_start, built,
                   chunkVars, retrieveVars, queryVars, raceVars>>
    /\ UNCHANGED histVars

\* one turn of the loop of compute_embeddings
EmbedBatch ==
    /\ pc = "embed"
    /\ batch_i < Len(chunks)
    /\ embeddings' = ExtendEmbeddings(embeddings, BatchEmbeddings(Batch(chunks, batch_i)))
    /\ batch_i' = batch_i + batch_size
    /\ UNCHANGED <<script, file, documents, pc, total_text, chunks, file_at_start, built,
                   chunkVars, retrieveVars, queryVars, raceVars>>
    /\ UNCHANGED histVars

\* A mutant of EmbedFails: the exception is caught and what has been embedded
\* so far is written out before the process ends.
EmbedFailsSavesPartial ==
    /\ pc = "embed"
    /\ batch_i < Len(chunks)
    /\ pc' = "failed"
    /\ file' = [written |-> 3, data |-> KnowledgeBaseData(chunks, embeddings)]
    /\ UNCHANGED <<script, documents, total_text, chunks, embeddings, batch_i,
                   file_at_start, built, chunkVars, retrieveVars, queryVars, raceVars>>
    /\ error' = "APIError" /\ failed_calls' = failed_calls + 1 /\ UNCHANGED saved_by

\* client.embeddings.create raises: nothing catches it, the process ends.
EmbedFails ==
    /\ pc = "embed"
    /\ batch_i < Len(chunks)
    /\ pc' = "failed"
    /\ UNCHANGED <<script, file, documents, total_text, chunks, embeddings, batch_i,
                   file_at_start, built, chunkVars, retrieveVars, queryVars, raceVars>>
    /\ error' = "APIError" /\ failed_calls' = failed_calls + 1 /\ UNCHANGED saved_by

\* hw6 main reads embeddings[0] before saving: IndexError on an empty list.
VerifyDimensionsFails ==
    /\ pc = "embed" /\ script = "hw6"
    /\ batch_i >= Len(chunks)
    /\ Len(embeddings) = 0
    /\ pc' = "failed"
    /\ UNCHANGED <<script, file, documents, total_text, chunks, embeddings, batch_i,
                   file_at_start, built, chunkVars, retrieveVars, queryVars, raceVars>>
    /\ error' = "IndexError" /\ UNCHANGED <<failed_calls, saved_by>>

\* compute_embeddings returns; save_knowledge_base builds data and
\* open(KNOWLEDGE_BASE_FILE, 'w') creates the file or empties the one there.
SaveOpen ==
    /\ pc = "embed"
    /\ batch_i >= Len(chunks)
    /\ script = "hw6" => Len(embeddings) > 0
    /\ file' = [written |-> 0,
                data    |-> IF script = "hw6"
                            THEN Hw6KnowledgeBaseData(chunks, embeddings)
                            ELSE KnowledgeBaseData(chunks, embeddings)]
    /\ pc' = "saving"
    /\ saved_by' = ""
    /\ UNCHANGED <<script, documents, total_text, chunks, embeddings, batch_i,
                   file_at_start, built, chunkVars, retrieveVars, queryVars, raceVars>>
    /\ UNCHANGED <<error, failed_calls>>

\* json.dump writes the text to the open file piece by piece
SaveWrite ==
    /\ pc = "saving"
    /\ file.written < 2
    /\ file' = [file EXCEPT !.written = @ + 1]
    /\ UNCHANGED <<script, documents, pc, total_text, chunks, embeddings, batch_i,
                   file_at_start, built, chunkVars, retrieveVars, queryVars, raceVars>>
    /\ UNCHANGED histVars

\* the rest is written and the with block closes the file; hw7 returns
\* (chunks, embeddings) to main, hw6 prints its summary and ends
SaveClose ==
    /\ pc = "saving"
    /\ file.written = 2
    /\ file' = [file EXCEPT !.written = 3]
    /\ built' = TRUE
    /\ pc' = IF script = "hw7" THEN "ready" ELSE "done"
    /\ saved_by' = script
    /\ UNCHANGED <<script, documents, total_text, chunks, embeddings, batch_i,
                   file_at_start, chunkVars, retrieveVars, queryVars, raceVars>>
    /\ UNCHANGED <<error, failed_calls>>

\* The process is killed (or the write raises, e.g. on a full disk) while it runs.
Crash ==
    /\ pc \in {"start", "chunk", "embed", "saving"}
    /\ pc' = "crashed"
    /\ UNCHANGED <<script, file, documents, total_text, chunks, embeddings, batch_i,
                   file_at_start, built, chunkVars, retrieveVars, queryVars, raceVars>>
    /\ UNCHANGED histVars

\* One of the scripts is run again; the file stays as the last process left it.
Restart ==
    /\ pc \in {"ready", "done", "failed", "crashed"}
    /\ script' \in {"hw6", "hw7"}
    /\ file_at_start' = file
    /\ pc' = "start"
    /\ total_text' = <<>> /\ chunks' = <<>> /\ embeddings' = <<>> /\ batch_i' = 0
    /\ built' = FALSE
    /\ UNCHANGED <<file, documents, chunkVars, retrieveVars, queryVars, raceVars>>
    /\ error' = "" /\ failed_calls' = 0 /\ UNCHANGED saved_by

Next ==
    \/ LoadExisting
    \/ Download
    \/ DownloadFails
    \/ Chunk
    \/ EmbedBatch
    \/ EmbedFails
    \/ VerifyDimensionsFails
    \/ SaveOpen
    \/ SaveWrite
    \/ SaveClose
    \/ Crash
    \/ Restart

Spec == InitRun /\ [][Next]_vars

---------------------------------------------------------------------------
(* Specification SpecQuery: send_rag_query on every small store *)

\* The fixed pieces of the prompt, each kept as one symbol.
Header == "Use the following to answer questions."
OpenTag == "<retrieved_knowledge id=\"document-"
TagEnd == "\">"
CloseTag == "</retrieved_knowledge>"

\* A mutant of BlockId: the block is tagged with the chunk's index in the store.
BlockIdOriginalIndex(i, idx) == idx

\* the number in the tag of the block made for enumerate(topk_indices) item (i, idx)
BlockId(i, idx) == i

\* one item of context: the f-string of the loop body
ContextBlock(i, idx, chs) ==
    <<"\n", OpenTag>> \o DecimalDigits(BlockId(i, idx)) \o <<TagEnd, "\n">>
    \o chs[idx + 1]
    \o <<"\n", CloseTag, "\n">>

\* create_augmented_prompt(query, retrieved_chunks, topk_indices, chunks);
\* query and retrieved_chunks are parameters the body never reads.
CreateAugmentedPrompt(q, retrieved_chunks, topk_indices, chs) ==
    LET context == [j \in 1..Len(topk_indices) |->
                       ContextBlock(j - 1, topk_indices[j], chs)]
    IN  <<Header, "\n">> \o JoinFrom(<<"\n">>, context, Len(context)) \o <<"\n">>

\* input=[...] of client.responses.create
ResponsesInput(prompt, q) ==
    << [role |-> "developer", content |-> prompt],
       [role |-> "user", content |-> q] >>

Queries == {<<"a">>, <<"w", "h", "o">>}

\* The store is the one main() got from initialize_knowledge_base, which may
\* hold one chunk more or less than embeddings.  k ranges over 1..MaxK so
\* that stores larger than k occur, as the real store is larger than TOP_K.
InitQuery ==
    /\ query \in Queries
    /\ chunk_embeddings \in SeqsUpTo(StoreVectors, MaxStore)
    /\ \E n \in {Len(chunk_embeddings) - 1, Len(chunk_embeddings),
                 Len(chunk_embeddings) + 1} :
          /\ n >= 0
          /\ chunks_arg = SomeChunks(n)
    /\ k \in 1..MaxK
    /\ query_embedding = <<>>
    /\ retrieve_result = NoRetrieveResult
    /\ calls = 0
    /\ store_before = [chunks |-> chunks_arg, embeddings |-> chunk_embeddings]
    /\ qpc = "start"
    /\ developer_prompt = <<>>
    /\ request = <<>>
    /\ IdleChunk
    /\ IdleRun
    /\ IdleRace

\* Step 1: query_embedding = compute_query_embedding(query), a vector of the service
ComputeQueryEmbedding ==
    /\ qpc = "start"
    /\ query_embedding' \in QueryVectors
    /\ qpc' = "retrieve"
    /\ UNCHANGED <<chunk_embeddings, chunks_arg, k, retrieve_result, callVars, query,
                   developer_prompt, request, chunkVars, runVars, raceVars>>

\* Step 2: retrieved_chunks, topk_indices = retrieve_relevant_chunks(...)
RetrieveForQuery ==
    /\ qpc = "retrieve"
    /\ retrieve_result' =
           RetrieveRelevantChunks(query_embedding, chunk_embeddings, chunks_arg, k)
    /\ qpc' = IF retrieve_result'.status = "ok" THEN "prompt" ELSE "failed"
    /\ UNCHANGED <<query_embedding, chunk_embeddings, chunks_arg, k, callVars, query,
                   developer_prompt, request, chunkVars, runVars, raceVars>>

\* Step 3: developer_prompt = create_augmented_prompt(query, retrieved_chunks,
\* topk_indices, chunks)
CreatePrompt ==
    /\ qpc = "prompt"
    /\ developer_prompt' =
           CreateAugmentedPrompt(query, retrieve_result.retrieved_chunks,
                                 retrieve_result.topk_indices, chunks_arg)
    /\ qpc' = "send"
    /\ UNCHANGED <<retrieveVars, query, request, chunkVars, runVars, raceVars>>

\* Step 4: client.responses.create(model=..., input=[developer, user])
SendRequest ==
    /\ qpc = "send"
    /\ request' = ResponsesInput(developer_prompt, query)
    /\ qpc' = "sent"
    /\ UNCHANGED <<retrieveVars, query, developer_prompt, chunkVars, runVars, raceVars>>

NextQuery ==
    \/ ComputeQueryEmbedding
    \/ RetrieveForQuery
    \/ CreatePrompt
    \/ SendRequest

SpecQuery == InitQuery /\ [][NextQuery]_vars

---------------------------------------------------------------------------
(* Specification SpecRace: two processes build and save the same file *)

Builders == {1, 2}

\* How many symbols go to the file in one write of the buffered file object
\* (the source leaves the default buffer of open(); scaled down like
\* CHUNK_SIZE so that a store of a few chunks takes several writes).
BufferSize == 40

\* a byte of a hole left by a write behind the end of the file
Nul == "NUL"

\* the JSON text a process writes after building from the documents it downloaded
OutputOf(docs) == FileText(EarlierArtifact(docs, CHUNK_SIZE, OVERLAP))

\* a write of piece at position off of a file holding t
WriteAt(t, off, piece) ==
    [j \in 1..Max(Len(t), off + Len(piece)) |->
        IF j > off /\ j <= off + Len(piece) THEN piece[j - off]
        ELSE IF j <= Len(t) THEN t[j]
        ELSE Nul]

\* Both processes start with no file on disk; each builds from what the
\* URLs served when it downloaded.
InitRace ==
    /\ disk = NoDisk
    /\ rpc = [p \in Builders |-> "check"]
    /\ out \in [Builders -> {OutputOf(docs) : docs \in [1..2 -> Documents]}]
    /\ pos = [p \in Builders |-> 0]
    /\ IdleChunk
    /\ IdleRetrieve
    /\ IdleRun
    /\ IdleQuery

\* initialize_knowledge_base: if os.path.exists(KNOWLEDGE_BASE_FILE)
BuilderCheckExists(p) ==
    /\ rpc[p] = "check"
    /\ rpc' = [rpc EXCEPT ![p] = IF disk.exists THEN "load" ELSE "build"]
    /\ UNCHANGED <<disk, out, pos, chunkVars, retrieveVars, runVars, queryVars>>

\* load_knowledge_base on whatever text the file holds now: a complete
\* output is loaded; anything else makes json.load raise or return what the
\* mixed text spells.
BuilderLoad(p) ==
    /\ rpc[p] = "load"
    /\ rpc' = [rpc EXCEPT ![p] = IF \E q \in Builders : disk.text = out[q]
                                 THEN "ready" ELSE "bad_load"]
    /\ UNCHANGED <<disk, out, pos, chunkVars, retrieveVars, runVars, queryVars>>

\* download_documents, semantic_chunk, compute_embeddings: touch no file
BuilderBuild(p) ==
    /\ rpc[p] = "build"
    /\ rpc' = [rpc EXCEPT ![p] = "save"]
    /\ UNCHANGED <<disk, out, pos, chunkVars, retrieveVars, runVars, queryVars>>

\* save_knowledge_base: open(KNOWLEDGE_BASE_FILE, 'w') creates or truncates
\* the file; the new open file starts at position 0.
BuilderOpen(p) ==
    /\ rpc[p] = "save"
    /\ disk' = [exists |-> TRUE, text |-> <<>>]
    /\ pos' = [pos EXCEPT ![p] = 0]
    /\ rpc' = [rpc EXCEPT ![p] = "write"]
    /\ UNCHANGED <<out, chunkVars, retrieveVars, runVars, queryVars>>

\* json.dump(data, f): the next buffer goes to the file at this process's position
BuilderWrite(p) ==
    /\ rpc[p] = "write"
    /\ pos[p] < Len(out[p])
    /\ LET piece == SubSeq(out[p], pos[p] + 1, Min(pos[p] + BufferSize, Len(out[p])))
       IN  /\ disk' = [disk EXCEPT !.text = WriteAt(@, pos[p], piece)]
           /\ pos' = [pos EXCEPT ![p] = @ + Len(piece)]
    /\ UNCHANGED <<rpc, out, chunkVars, retrieveVars, runVars, queryVars>>

\* the with block ends after the last buffer is written
BuilderClose(p) ==
    /\ rpc[p] = "write"
    /\ pos[p] = Len(out[p])
    /\ rpc' = [rpc EXCEPT ![p] = "done"]
    /\ UNCHANGED <<disk, out, pos, chunkVars, retrieveVars, runVars, queryVars>>

NextRace ==
    \E p \in Builders :
        \/ BuilderCheckExists(p)
        \/ BuilderLoad(p)
        \/ BuilderBuild(p)
        \/ BuilderOpen(p)
        \/ BuilderWrite(p)
        \/ BuilderClose(p)

SpecRace == InitRace /\ [][NextRace]_vars

---------------------------------------------------------------------------
(* Claims about semantic_chunk, under SpecChunk *)

ChunkCalled == chunk_result.status # Pending

ValidChunking == chunk_size > 0 /\ 0 <= overlap /\ overlap < chunk_size

NoSpaceInText == \A j \in 1..Len(text) : ~IsSpace(text[j])

C2_InvalidParametersRaise ==
    (ChunkCalled /\ ~ValidChunking) => chunk_result.status # "ok"

\* the slice of the text at offset o holds a non-blank character
SolidSlice(o) ==
    \E x \in (o + 1)..Min(o + chunk_size, Len(text)) : ~IsSpace(text[x])

\* the offsets the loop of semantic_chunk visits, for a positive stride
VisitedOffsets ==
    {o \in 0..(Len(text) - 1) : o % (chunk_size - overlap) = 0}

\* C17: no returned chunk is empty after trimming whitespace; every
\* whitespace-only slice is dropped and nothing else is; the chunks kept stay
\* in traversal order, at positions 1..m of the list with no gap.
C17_NoBlankChunkOrderKept ==
    chunk_result.status = "ok" =>
        LET cs == chunk_result.chunks
            os == chunk_result.offsets
        IN  /\ \A j \in 1..Len(cs) : \E x \in 1..Len(cs[j]) : ~IsSpace(cs[j][x])
            /\ \A j \in 1..Len(cs) : Len(Strip(cs[j])) > 0
            /\ DOMAIN cs = 1..Len(os)
            /\ \A j \in 1..(Len(os) - 1) : os[j] < os[j + 1]
            /\ ValidChunking =>
                  {os[j] : j \in 1..Len(os)} = {o \in VisitedOffsets : SolidSlice(o)}

\* C17's case: a whitespace-only slice between two kept chunks was dropped.
C17_Witness ==
    /\ chunk_result.status = "ok" /\ ValidChunking
    /\ Len(chunk_result.chunks) >= 2
    /\ \E o \in VisitedOffsets :
          /\ ~SolidSlice(o)
          /\ chunk_result.offsets[1] < o /\ o < chunk_result.offsets[2]

RECURSIVE ConcatFirst(_, _)
ConcatFirst(ss, n) == IF n = 0 THEN <<>> ELSE ConcatFirst(ss, n - 1) \o ss[n]

\* C20: with overlap = 0 and chunk_size > 0 the slices tile the text: the
\* ranges of the returned chunks are pairwise disjoint, and when no slice is
\* whitespace-only the chunks concatenated in order are the input text.
C20_DisjointTiling ==
    (ChunkCalled /\ overlap = 0 /\ chunk_size > 0) =>
        LET cs == chunk_result.chunks
            os == chunk_result.offsets
        IN  /\ chunk_result.status = "ok"
            /\ \A i \in 1..Len(cs) : \A j \in 1..Len(cs) :
                  i < j => os[i] + Len(cs[i]) <= os[j]
            /\ (\A o \in VisitedOffsets : SolidSlice(o)) =>
                  ConcatFirst(cs, Len(cs)) = text

\* C20's case: a text tiled into three chunks, the last one shorter.
C20_Witness ==
    /\ ChunkCalled /\ overlap = 0 /\ chunk_size = 2 /\ Len(text) = 5
    /\ Len(chunk_result.chunks) = 3
    /\ ConcatFirst(chunk_result.chunks, 3) = text

\* the 0-based character positions of the text
Positions == 0..(Len(text) - 1)

\* position x lies inside the slice text[o:o + chunk_size]
InSlice(x, o) == o <= x /\ x < Min(o + chunk_size, Len(text))

\* position x lies inside a returned chunk
InReturnedChunk(x) ==
    \E j \in 1..Len(chunk_result.chunks) :
        /\ chunk_result.offsets[j] <= x
        /\ x < chunk_result.offsets[j] + Len(chunk_result.chunks[j])

\* C23: with chunk_size > 0 and 0 <= overlap < chunk_size the slices the
\* loop visits cover the text: every position lies inside at least one
\* slice, and a position is missing from the returned chunks only if every
\* slice containing it was whitespace-only.
C23_SlicesCoverText ==
    (ChunkCalled /\ ValidChunking) =>
        LET visited == {chunk_result.visited[j] : j \in 1..Len(chunk_result.visited)}
        IN  /\ chunk_result.status = "ok"
            /\ \A x \in Positions : \E o \in visited : InSlice(x, o)
            /\ \A x \in Positions :
                  ~InReturnedChunk(x) =>
                      \A o \in visited :
                          InSlice(x, o) =>
                              \A y \in Positions : InSlice(y, o) => IsSpace(text[y + 1])

\* C23's case: overlapping slices, two chunks returned, and between them a
\* position that no returned chunk holds.
C23_Witness ==
    /\ ChunkCalled /\ ValidChunking /\ overlap > 0
    /\ Len(chunk_result.chunks) >= 2
    /\ \E x \in Positions :
          /\ ~InReturnedChunk(x)
          /\ chunk_result.offsets[1] < x
          /\ x < chunk_result.offsets[Len(chunk_result.offsets)]

---------------------------------------------------------------------------
(* Claims about retrieve_relevant_chunks, under SpecRetrieve *)

RetrieveCalled == retrieve_result.status # Pending

AlignedStore == Len(chunks_arg) = Len(chunk_embeddings)

\* C3: the result is ordered by descending score, and two results of equal
\* score come in ascending original chunk index; the scenario store
\* [[1,0],[0,1],[0.7,0.7]] with query [1,0] and k = 2 gives chunk 0, chunk 2.
C3_DescendingScoreAscendingIndex ==
    retrieve_result.status = "ok" =>
        LET rc == retrieve_result.retrieved_chunks
            ti == retrieve_result.topk_indices
        IN  /\ Len(ti) = Len(rc)
            /\ \A i \in 1..Len(rc) : \A j \in 1..Len(rc) :
                  i < j => \/ rc[i][2] > rc[j][2]
                           \/ rc[i][2] = rc[j][2] /\ ti[i] < ti[j]
            /\ chunk_embeddings = << <<10, 0>>, <<0, 10>>, <<7, 7>> >> =>
                  /\ ti = <<0, 2>>
                  /\ rc = << <<SomeChunks(3)[1], 100>>, <<SomeChunks(3)[3], 70>> >>

\* C3's case: a returned result in which two chunks tie.
C3_Witness ==
    /\ retrieve_result.status = "ok"
    /\ Len(retrieve_result.retrieved_chunks) >= 3
    /\ retrieve_result.retrieved_chunks[2][2] = retrieve_result.retrieved_chunks[3][2]
    /\ retrieve_result.retrieved_chunks[1][2] > retrieve_result.retrieved_chunks[2][2]

\* C4: on a store of n chunks (and as many embeddings) the call returns
\* exactly min(k, n) results, and with k > n every stored chunk exactly once.
C4_ReturnsMinKN ==
    (RetrieveCalled /\ AlignedStore /\ k >= 1) =>
        LET n  == Len(chunks_arg)
            rc == retrieve_result.retrieved_chunks
            ti == retrieve_result.topk_indices
        IN  /\ retrieve_result.status = "ok"
            /\ Len(rc) = Min(k, n)
            /\ Len(ti) = Min(k, n)
            /\ \A i \in 1..Len(ti) : \A j \in 1..Len(ti) : i # j => ti[i] # ti[j]
            /\ k > n =>
                  /\ {ti[j] : j \in 1..Len(ti)} = 0..(n - 1)
                  /\ \A c \in 1..n :
                        Cardinality({j \in 1..Len(rc) : rc[j][1] = chunks_arg[c]}) = 1

\* C4's case: k exceeds the number of stored chunks.
C4_Witness ==
    /\ RetrieveCalled /\ AlignedStore
    /\ Len(chunks_arg) = 3 /\ k = 4
    /\ Len(retrieve_result.retrieved_chunks) = 3

\* The query vector and the stored vectors disagree in length.
DimensionMismatch ==
    \E j \in 1..Len(chunk_embeddings) : Len(chunk_embeddings[j]) # Len(query_embedding)

\* C9: a query vector whose length differs from that of the stored
\* embeddings makes the call fail; no scores are computed and returned.
C9_DimensionMismatchRaises ==
    (RetrieveCalled /\ AlignedStore /\ DimensionMismatch) =>
        retrieve_result.status # "ok"

\* C19: on a store with zero chunks the call returns an empty result, for
\* every query vector and every k >= 1, and raises nothing.
C19_EmptyStoreEmptyResult ==
    (RetrieveCalled /\ Len(chunks_arg) = 0 /\ Len(chunk_embeddings) = 0 /\ k >= 1) =>
        /\ retrieve_result.status = "ok"
        /\ retrieve_result.retrieved_chunks = <<>>
        /\ retrieve_result.topk_indices = <<>>

\* C19's case: the call was made on an empty store with a query vector and k > 1.
C19_Witness ==
    /\ RetrieveCalled /\ Len(chunks_arg) = 0 /\ Len(chunk_embeddings) = 0
    /\ Len(query_embedding) = 2 /\ k = 3
    /\ retrieve_result.status = "ok"

\* the dot product of two vectors, over the components both have
RECURSIVE ScoreFrom(_, _, _)
ScoreFrom(q, e, i) ==
    IF i > Len(q) \/ i > Len(e) THEN 0 ELSE q[i] * e[i] + ScoreFrom(q, e, i + 1)

\* C22: on a store with as many chunks as embeddings, topk_indices are
\* pairwise distinct valid indices into chunks; retrieved_chunks[j] is the
\* pair (chunks[topk_indices[j]], dot product of the query with
\* embeddings[topk_indices[j]]); and no chunk outside the result scores
\* strictly higher than a chunk inside it.
C22_ResultIsBestOfStore ==
    (RetrieveCalled /\ AlignedStore) =>
        LET rc      == retrieve_result.retrieved_chunks
            ti      == retrieve_result.topk_indices
            inside  == {ti[j] : j \in 1..Len(ti)}
            outside == (0..(Len(chunks_arg) - 1)) \ inside
            Score(idx) == ScoreFrom(query_embedding, chunk_embeddings[idx + 1], 1)
        IN  /\ retrieve_result.status = "ok"
            /\ Len(rc) = Len(ti)
            /\ \A j \in 1..Len(ti) : ti[j] \in 0..(Len(chunks_arg) - 1)
            /\ \A i \in 1..Len(ti) : \A j \in 1..Len(ti) : i # j => ti[i] # ti[j]
            /\ \A j \in 1..Len(ti) :
                  rc[j] = <<chunks_arg[ti[j] + 1], Score(ti[j])>>
            /\ \A o \in outside : \A i \in inside : Score(o) <= Score(i)

\* C22's case: two of three stored chunks are returned, the one left out
\* scores lower than both, and a score has a part from each component.
C22_Witness ==
    /\ RetrieveCalled /\ AlignedStore
    /\ Len(chunks_arg) = 3 /\ k = 2
    /\ Len(retrieve_result.topk_indices) = 2
    /\ retrieve_result.retrieved_chunks[1][2] = 2
    /\ retrieve_result.retrieved_chunks[2][2] = 1
    /\ \E o \in 0..2 :
          /\ o \notin {retrieve_result.topk_indices[1], retrieve_result.topk_indices[2]}
          /\ ScoreFrom(query_embedding, chunk_embeddings[o + 1], 1) = 0

---------------------------------------------------------------------------
(* Claims about the build path and the knowledge store, under Spec *)

Stopped == pc \in {"crashed", "failed"}

\* C5: a save that is interrupted (the process is killed, or an exception
\* ends it) leaves on disk either the artifact that was there before or the
\* complete new store, never a truncated or partly written file.
C5_InterruptedSaveLeavesOldOrNew ==
    Stopped =>
        \/ file = file_at_start
        \/ /\ FileComplete(file)
           /\ file.data = KnowledgeBaseData(chunks, embeddings)

\* every vector of embs has the same length
SameLengthVectors(embs) ==
    \A i \in 1..Len(embs) : \A j \in 1..Len(embs) : Len(embs[i]) = Len(embs[j])

\* C6: load_knowledge_base never hands the caller a store whose chunk count
\* differs from its embedding count, or whose vectors differ in length: such
\* a file is rejected.
C6_LoadRejectsCorruptStore ==
    (script = "hw7" /\ pc = "ready" /\ ~built) =>
        /\ Len(chunks) = Len(embeddings)
        /\ SameLengthVectors(embeddings)

\* compute_embeddings has returned in this process
EmbeddingsComputed ==
    \/ pc = "embed" /\ batch_i >= Len(chunks)
    \/ pc = "saving"
    \/ built

\* C7: in every knowledge base the build path produces (chunk, embed, save),
\* len(chunks) == len(embeddings) == metadata.num_chunks, in the object being
\* saved as in the lists handed back to the caller.
C7_BuiltStoreIsAligned ==
    (pc = "saving" \/ built) =>
        /\ Len(file.data.chunks) = Len(file.data.embeddings)
        /\ Len(file.data.chunks) = file.data.metadata.num_chunks
        /\ Len(chunks) = Len(embeddings)
        /\ file.data.chunks = chunks

\* C7's case: a store of three chunks (two embedding batches) has been saved.
C7_Witness ==
    /\ built /\ FileComplete(file)
    /\ Len(file.data.chunks) = 3

\* C8: with an order-preserving embedding service, compute_embeddings returns
\* at position i the embedding of chunks[i], whatever the batches were: the
\* result is what embedding the chunks one at a time, in order, gives.  While
\* the loop runs the list holds the embeddings of the chunks before batch_i.
C8_EmbeddingsFollowChunkOrder ==
    /\ EmbeddingsComputed =>
          embeddings = [j \in 1..Len(chunks) |-> ClientEmbedding(chunks[j])]
    /\ pc = "embed" =>
          embeddings = [j \in 1..Min(batch_i, Len(chunks)) |-> ClientEmbedding(chunks[j])]

\* C8's case: three chunks with three different embeddings went through two batches.
C8_Witness ==
    /\ pc = "embed" /\ batch_i >= Len(chunks)
    /\ Len(chunks) = 3 /\ batch_i = 2 * batch_size
    /\ Cardinality({embeddings[j] : j \in 1..Len(embeddings)}) = 3

\* the parameters a file was built with are those of the running configuration
BuiltWithCurrentConfiguration(f) ==
    /\ f.data.metadata.chunk_size = CHUNK_SIZE
    /\ f.data.metadata.overlap = OVERLAP
    /\ f.data.metadata.embedding_model = EMBEDDING_MODEL

\* C10: initialize_knowledge_base never reaches READY serving a persisted
\* store whose metadata differs from the configuration: it rebuilds instead.
C10_ReadyStoreMatchesConfiguration ==
    (script = "hw7" /\ pc = "ready") =>
        /\ BuiltWithCurrentConfiguration(file)
        /\ BuiltWithCurrentConfiguration(file_at_start) \/ built

\* what a complete build of the served documents gives
AllChunks == SemanticChunk(JoinDocuments(documents), CHUNK_SIZE, OVERLAP).chunks
AllEmbeddings == [j \in 1..Len(AllChunks) |-> ClientEmbedding(AllChunks[j])]

\* a step of the build before persisting raised: the download, an embedding
\* batch, or (hw6) the read of embeddings[0]
BuildStepFailed ==
    pc = "failed" /\ error \in {"URLError", "APIError", "IndexError"}

\* C11: when a build step before persisting fails, the build stops and the
\* persisted store is what it was when the process started (absent, or the
\* previous artifact); a complete file that a process has written holds all
\* the chunks and all their embeddings, never a part of them.
C11_FailedBuildLeavesStoreUntouched ==
    /\ BuildStepFailed => file = file_at_start /\ ~built
    /\ (FileComplete(file) /\ file # file_at_start) =>
          file.data = KnowledgeBaseData(AllChunks, AllEmbeddings)

\* C11's case: hw6 ran over an existing artifact and its second embedding
\* batch failed, with the first batch already embedded.
C11_Witness ==
    /\ BuildStepFailed /\ error = "APIError" /\ script = "hw6"
    /\ Len(chunks) = 3 /\ Len(embeddings) = batch_size
    /\ FileComplete(file_at_start) /\ file = file_at_start

\* C16: a failed embedding call is retried; the build fails only after the
\* retries for that batch are used up, not on the first call that fails.
C16_BuildFailsOnlyAfterRetries ==
    (pc = "failed" /\ error = "APIError") => failed_calls > 1

\* C18: hw7 reaches READY along EMPTY -> BUILDING -> READY.  When the
\* artifact existed at start, READY is reached by loading alone: nothing was
\* downloaded, chunked, embedded or saved.  When it was absent, the build is
\* entered, the save starts only after chunking and all embedding batches,
\* and READY is reached only with the complete store saved.
C18_LoadOrBuildThenReady ==
    script = "hw7" =>
        /\ pc \in {"chunk", "embed", "saving"} => ~FileExists(file_at_start)
        /\ pc = "embed" =>
              /\ total_text = JoinDocuments(documents)
              /\ chunks = AllChunks
              /\ file = file_at_start
        /\ pc = "saving" =>
              /\ chunks = AllChunks /\ embeddings = AllEmbeddings
              /\ file.data = KnowledgeBaseData(chunks, embeddings)
        /\ pc = "ready" =>
              IF FileExists(file_at_start)
              THEN /\ ~built
                   /\ file = file_at_start
                   /\ total_text = <<>> /\ batch_i = 0
                   /\ chunks = file.data.chunks /\ embeddings = file.data.embeddings
              ELSE /\ built
                   /\ chunks = AllChunks /\ embeddings = AllEmbeddings
                   /\ FileComplete(file)
                   /\ file.data = KnowledgeBaseData(chunks, embeddings)

\* C18's case: the artifact was absent and READY was reached by a build of three chunks.
C18_Witness ==
    /\ script = "hw7" /\ pc = "ready"
    /\ ~FileExists(file_at_start) /\ built
    /\ Len(chunks) = 3

\* C12: chunks and embeddings of equal length that save_knowledge_base wrote
\* come back from load_knowledge_base equal to the originals, in the same
\* order, and the num_chunks read back from the file is len(chunks).
C12_SaveLoadRoundTrip ==
    (script = "hw7" /\ pc = "ready" /\ ~built
        /\ Len(file.data.chunks) = Len(file.data.embeddings)) =>
        /\ chunks = file.data.chunks
        /\ embeddings = file.data.embeddings
        /\ Lookup(Lookup(JsonLoad(FileText(file)), "metadata"), "num_chunks")
               = Len(chunks)
        /\ Lookup(Lookup(JsonLoad(FileText(file)), "metadata"), "chunk_size")
               = file.data.metadata.chunk_size

\* C12's case: a store of three chunks, some holding line breaks (escaped in
\* the file), saved by one process and loaded by a later one.
C12_Witness ==
    /\ script = "hw7" /\ pc = "ready" /\ ~built
    /\ file.data = KnowledgeBaseData(AllChunks, AllEmbeddings)
    /\ Len(chunks) = 3
    /\ \E j \in 1..3 : \E x \in 1..Len(chunks[j]) : chunks[j][x] = "\n"
    /\ chunks = AllChunks /\ embeddings = AllEmbeddings

---------------------------------------------------------------------------
(* Claims about the query path, under SpecQuery *)

PromptMade == qpc \in {"send", "sent"}

\* where the last block of the prompt ends (the header when there is no block)
LastBlockEnd ==
    LET ends == {p \in 1..Len(developer_prompt) : developer_prompt[p] = CloseTag}
    IN  IF ends = {} THEN 1 ELSE CHOOSE p \in ends : \A r \in ends : r <= p

\* C14: the string made by create_augmented_prompt holds the tagged blocks
\* followed by the original query: the query text appears in the prompt
\* after the last block.
C14_QueryFollowsLastBlock ==
    PromptMade =>
        \E p \in (LastBlockEnd + 1)..(Len(developer_prompt) - Len(query) + 1) :
            SubSeq(developer_prompt, p, p + Len(query) - 1) = query

\* the blocks read back from a prompt: [id, text] of every tagged block in order
RECURSIVE ReadBlocks(_, _, _)
ReadBlocks(t, p, acc) ==
    IF p > Len(t) THEN acc
    ELSE IF t[p] # OpenTag THEN ReadBlocks(t, p + 1, acc)
    ELSE LET q == CHOOSE x \in p..Len(t) :
                      t[x] = TagEnd /\ \A y \in p..(x - 1) : t[y] # TagEnd
             c == CHOOSE x \in q..Len(t) :
                      t[x] = CloseTag /\ \A y \in q..(x - 1) : t[y] # CloseTag
         IN  ReadBlocks(t, c + 1,
                 Append(acc, [id   |-> SubSeq(t, p + 1, q - 1),
                              text |-> SubSeq(t, q + 2, c - 2)]))

\* C15: the prompt holds exactly one block per retrieved chunk, in the
\* retriever's order; the j-th block is tagged j-1 (its position, not the
\* chunk's index in the store) and holds the text of the j-th retrieved chunk.
C15_OneBlockPerChunkInOrder ==
    PromptMade =>
        LET blocks == ReadBlocks(developer_prompt, 1, <<>>)
            retrieved_chunks == retrieve_result.retrieved_chunks
        IN  /\ Len(blocks) = Len(retrieved_chunks)
            /\ \A j \in 1..Len(blocks) :
                  /\ blocks[j].id = DecimalDigits(j - 1)
                  /\ blocks[j].text = retrieved_chunks[j][1]

\* C15's case: a prompt of two blocks cut from a store of three chunks, the
\* first block holding a chunk that is not the first of the store.
C15_Witness ==
    /\ PromptMade
    /\ Len(chunk_embeddings) = 3
    /\ Len(retrieve_result.topk_indices) = 2
    /\ retrieve_result.topk_indices[1] = 2
    /\ retrieve_result.topk_indices[2] = 0
    /\ Len(ReadBlocks(developer_prompt, 1, <<>>)) = 2

---------------------------------------------------------------------------
(* Claims about concurrent builders, under SpecRace *)

\* C13: two processes saving the same file do not interleave: after both
\* finish, the file is the complete output of exactly one of them.
C13_SaveLeavesOneBuildersOutput ==
    (\A p \in Builders : rpc[p] = "done") =>
        \E p \in Builders : disk.text = out[p]

=============================================================================
